---- MODULE Spec2Model ----
(***************************************************************************)
(* Model of PipelineExecutor (src/src/core/pipeline_executor.py) together  *)
(* with the bracketing state of its log sink (src/src/core/log_manager.py) *)
(* and the flow-control flags of PipelineConfig                            *)
(* (src/src/config/config_manager.py).                                     *)
(*                                                                         *)
(* execute() is unfolded into one step per call it makes on a collaborator *)
(* (log sink, progress callback, phase).  Every collaborator call either   *)
(* returns or raises; a phase's run() returns True, returns False or       *)
(* raises.  The outcome is chosen anew at every call.                      *)
(*                                                                         *)
(* log, events and runs are the observations of the execute() call in      *)
(* progress (or of the last one, between calls): they are emptied when     *)
(* execute() is entered.                                                   *)
(*                                                                         *)
(* The web application (src/src/web/streamlit_app.py, auth_utils.py) is    *)
(* modelled beside it: one browser session, the Firestore collections      *)
(* `users` and `api_keys`, and the accounts of Firebase Authentication.    *)
(* One run of the script main() is one step.                               *)
(***************************************************************************)
EXTENDS Naturals, Sequences, FiniteSets

VARIABLES
    config,                 \* self.config
    domain1_exists,         \* os.path.exists(config.domain1), as the call finds it
    domain2_exists,         \* os.path.exists(config.domain2), as the call finds it
    execution_completed,    \* self._execution_completed
    progress_callback,      \* self.progress_callback ("unset": no such attribute)
    pipeline_start_time,    \* logger.pipeline_start_time ("None" or "set")
    current_phase,          \* logger.current_phase ("None" or a phase name)
    phase_start_time,       \* logger.phase_start_time ("None" or "set")
    summary_file,           \* content of logs/pipeline_execution.json
    pc,                     \* position inside execute(); "idle" outside it
    phases,                 \* local `phases` of execute()
    phases_bound,           \* whether local `phases` has been assigned
    i,                      \* loop index of `for i, phase in enumerate(phases)`
    success,                \* local `success` of execute()
    j,                      \* position of the comprehension of line 71
    completed,              \* number of True results in the comprehension
    ret,                    \* how the current/last execute() call ended
    prev,                   \* how the execute() call before it ended
    calls,                  \* number of execute() calls made
    entered_completed,      \* _execution_completed when execute() was entered
    log,                    \* entries accepted by the log sink in this call
    events,                 \* invocations of the progress callback in this call
    runs,                   \* invocations of run() in this call
    summary_writes,         \* writes of the summary file in this call
    raised,                 \* collaborators that raised in this call
    failed_at,              \* 1-based index of the phase whose run() returned
                            \* False in the loop, 0 if none
    access,                 \* the last call of get_results() or
                            \* get_execution_summary() since execute() and
                            \* how it ended
    session,                \* st.session_state of the one browser session
    users,                  \* Firestore collection `users`: role of each document
    accounts,               \* user ids known to Firebase Authentication
    api_keys,               \* Firestore collection `api_keys`
    firebase_ok,            \* initialize_firebase_admin() (cached for the process)
    web_api_key,            \* whether get_firebase_web_api_key() finds a key
    rendered,               \* the pages rendered by the last run of main()
                            \* and the collections their functions read and
                            \* wrote, with the parity of the number of runs
    rerun,                  \* the last run of main() ended in st.rerun()
    api_result,             \* the last call of get_api_key() since the last
                            \* run of main(), and what it did
    auth_call,              \* the call of sign-in or sign-up made by the last
                            \* run of main(), and what it returned
    auth_check,             \* the last call of ensure_auth_valid() made
                            \* outside main() since, and what it did
    signups                 \* the sign-ups and first logins of other browser
                            \* sessions: how far each has come, and the user
                            \* whose document was written first

vars == <<config, domain1_exists, domain2_exists, execution_completed,
          progress_callback, pipeline_start_time, current_phase,
          phase_start_time, summary_file, pc, phases, phases_bound, i,
          success, j, completed, ret, prev, calls, entered_completed, log,
          events, runs, summary_writes, raised, failed_at, access, session,
          users, accounts, api_keys, firebase_ok, web_api_key, rendered,
          rerun, api_result, auth_call, auth_check, signups>>

\* The state of the web application (src/src/web).
webVars == <<session, users, accounts, api_keys, firebase_ok, web_api_key,
             rendered, rerun, api_result, auth_call, auth_check, signups>>

\* The state of the executor, its log sink and its observations.
execVars == <<config, domain1_exists, domain2_exists, execution_completed,
              progress_callback, pipeline_start_time, current_phase,
              phase_start_time, summary_file, pc, phases, phases_bound, i,
              success, j, completed, ret, prev, calls, entered_completed,
              log, events, runs, summary_writes, raised, failed_at, access>>

\* Number of execute() calls made on the one executor instance.
MaxCalls == 2

-----------------------------------------------------------------------------
(* Configuration *)

FlagNames == {"skip_searches", "skip_integration", "skip_domain_analysis",
              "skip_classification", "skip_table", "only_search",
              "only_analysis", "only_report"}

required_fields == {"domain1", "domain2", "figures_dir"}

\* The flow-control flags with their dataclass defaults.
DefaultFlags == [f \in FlagNames |-> FALSE]

\* A configuration: `present` is FALSE for a falsy config (None); `has` is
\* the set of required attributes the object carries.
PipelineConfig ==
    [present : BOOLEAN, has : SUBSET required_fields, flags : [FlagNames -> BOOLEAN]]

\* Configurations the executor is constructed with.  An object that is not a
\* full PipelineConfig (absent, or lacking a required attribute) is taken with
\* default flags: validation rejects it before any flag is read.
Configs ==
    {c \in PipelineConfig :
        (~c.present => c.has = {})
        /\ ((~c.present \/ c.has # required_fields) => c.flags = DefaultFlags)}

\* The flags no line of the executor's control flow reads.
UnreadFlags == {"skip_searches", "skip_integration"}

\* The configurations whose unread flags are at their defaults.
RunConfigs == {c \in Configs : \A f \in UnreadFlags : ~c.flags[f]}

-----------------------------------------------------------------------------
(* Phases *)

CanonicalPhases ==
    <<"SearchPhase", "DomainAnalysisPhase", "ClassificationPhase",
      "AnalysisPhase", "TableExportPhase", "ReportPhase">>

\* phase.get_description(): the name used in logs and progress events.
get_description(p) ==
    CASE p = "SearchPhase"         -> "Search"
      [] p = "DomainAnalysisPhase" -> "DomainAnalysis"
      [] p = "ClassificationPhase" -> "Classification"
      [] p = "AnalysisPhase"       -> "Analysis"
      [] p = "TableExportPhase"    -> "TableExport"
      [] p = "ReportPhase"         -> "Report"

\* `"Analysis" in phase_name`
ContainsAnalysis(name) == name \in {"DomainAnalysis", "Analysis"}

\* [p for p in all_phases if not isinstance(p, cls)]
Without(s, cls) == SelectSeq(s, LAMBDA p : p # cls)

\* The analysis-only run without the skip_table test of line 116.
only_analysis_phases_keep_table(c) == <<"AnalysisPhase", "TableExportPhase">>

\* Lines 114-118: the phases of an analysis-only run.
only_analysis_phases(c) ==
    <<"AnalysisPhase">>
    \o (IF ~c.flags["skip_table"] THEN <<"TableExportPhase">> ELSE <<>>)

\* The full pipeline without the second filter of line 135.
full_pipeline_phases_keep_classification(c) ==
    LET all0 == CanonicalPhases
        all1 == IF c.flags["skip_domain_analysis"]
                THEN Without(all0, "DomainAnalysisPhase")
                ELSE all0
        all2 == IF c.flags["skip_classification"]
                THEN Without(all1, "ClassificationPhase")
                ELSE all1
        all3 == IF c.flags["skip_table"]
                THEN Without(all2, "TableExportPhase")
                ELSE all2
    IN  all3

\* The full pipeline with a skip_table filter that also drops the report.
full_pipeline_phases_table_drops_report(c) ==
    LET all0 == CanonicalPhases
        all1 == IF c.flags["skip_domain_analysis"]
                THEN Without(Without(all0, "DomainAnalysisPhase"),
                             "ClassificationPhase")
                ELSE all0
        all2 == IF c.flags["skip_classification"]
                THEN Without(all1, "ClassificationPhase")
                ELSE all1
        all3 == IF c.flags["skip_table"]
                THEN Without(Without(all2, "TableExportPhase"), "ReportPhase")
                ELSE all2
    IN  all3

\* Lines 123-143: the phases of the full pipeline, after the skip_* filters.
full_pipeline_phases(c) ==
    LET all0 == CanonicalPhases
        all1 == IF c.flags["skip_domain_analysis"]
                THEN Without(Without(all0, "DomainAnalysisPhase"),
                             "ClassificationPhase")
                ELSE all0
        all2 == IF c.flags["skip_classification"]
                THEN Without(all1, "ClassificationPhase")
                ELSE all1
        all3 == IF c.flags["skip_table"]
                THEN Without(all2, "TableExportPhase")
                ELSE all2
    IN  all3

\* _get_phases_to_run with only_analysis tested before only_report.
_get_phases_to_run_analysis_first(c) ==
    IF c.flags["only_analysis"] THEN only_analysis_phases(c)
    ELSE IF c.flags["only_report"] THEN <<"ReportPhase">>
    ELSE IF ~c.flags["only_search"] THEN full_pipeline_phases(c)
    ELSE <<"SearchPhase">>

\* _get_phases_to_run with only_search tested before only_analysis.
_get_phases_to_run_search_first(c) ==
    IF c.flags["only_report"] THEN <<"ReportPhase">>
    ELSE IF c.flags["only_search"] THEN <<"SearchPhase">>
    ELSE IF c.flags["only_analysis"] THEN only_analysis_phases(c)
    ELSE full_pipeline_phases(c)

\* _get_phases_to_run with skip_searches honoured by the full pipeline.
_get_phases_to_run_honours_skip_searches(c) ==
    IF c.flags["only_report"] THEN <<"ReportPhase">>
    ELSE IF c.flags["only_analysis"] THEN only_analysis_phases(c)
    ELSE IF ~c.flags["only_search"]
    THEN IF c.flags["skip_searches"]
         THEN Without(full_pipeline_phases(c), "SearchPhase")
         ELSE full_pipeline_phases(c)
    ELSE <<"SearchPhase">>

\* Lines 103-148.
_get_phases_to_run(c) ==
    IF c.flags["only_report"] THEN <<"ReportPhase">>
    ELSE IF c.flags["only_analysis"] THEN only_analysis_phases(c)
    ELSE IF ~c.flags["only_search"] THEN full_pipeline_phases(c)
    ELSE <<"SearchPhase">>

-----------------------------------------------------------------------------
(* Configuration validation *)

\* The message validate_config logs, "" when the configuration is valid.
validate_error(c, d1, d2) ==
    IF ~c.present THEN "No configuration provided"
    ELSE IF "domain1" \notin c.has THEN "Missing required config field: domain1"
    ELSE IF "domain2" \notin c.has THEN "Missing required config field: domain2"
    ELSE IF "figures_dir" \notin c.has
    THEN "Missing required config field: figures_dir"
    ELSE IF ~d1 THEN "Domain1 file not found"
    ELSE IF ~d2 THEN "Domain2 file not found"
    ELSE ""

\* validate_config without the test of lines 97-99.
validate_config_skips_domain2(c, d1, d2) ==
    IF ~c.present THEN FALSE
    ELSE IF \E field \in required_fields : field \notin c.has THEN FALSE
    ELSE IF ~d1 THEN FALSE
    ELSE TRUE

\* validate_config, lines 80-101: d1 and d2 are os.path.exists of the two
\* input files.
validate_config(c, d1, d2) ==
    IF ~c.present THEN FALSE
    ELSE IF \E field \in required_fields : field \notin c.has THEN FALSE
    ELSE IF ~d1 THEN FALSE
    ELSE IF ~d2 THEN FALSE
    ELSE TRUE

-----------------------------------------------------------------------------
(* Observations *)

\* An entry accepted by the log sink.
Entry(op, phase, ok, msg) ==
    [op |-> op, phase |-> phase, ok |-> ok, msg |-> msg, total |-> 0, done |-> 0]

\* An entry of end_pipeline, carrying the statistics handed to it.
EndEntry(ok, total, done) ==
    [op |-> "end_pipeline", phase |-> "None", ok |-> ok, msg |-> "",
     total |-> total, done |-> done]

\* A progress event (phase, progress, message); the fraction progress is
\* kept as numerator and denominator.
Event(phase, num, den, kind) ==
    [phase |-> phase, num |-> num, den |-> den, kind |-> kind]

\* An invocation of run(): in the loop of lines 34-61 or in the
\* comprehension of line 71.
Run(phase, where) == [phase |-> phase, where |-> where]

-----------------------------------------------------------------------------
(* State of the web application: session, Firestore, Firebase Authentication *)

\* Number of user ids.
MaxUsers == 2

\* The localId values Firebase Authentication hands out.
UserNames == <<"u1", "u2", "u3", "u4">>

UserIds == {UserNames[k] : k \in 1..MaxUsers}

\* The API services whose keys are kept in Firestore.
Services == {"anthropic", "sciencedirect"}

\* The pages main() can render.
Pages == {"login", "search", "execution", "results", "profile",
          "api_settings", "admin"}

\* A session without any key.
EmptySession == [k \in {} |-> "None"]

\* `key in st.session_state`.
Has(s, k) == k \in DOMAIN s

\* `st.session_state.get(key, default)`.
Get(s, k, default) == IF Has(s, k) THEN s[k] ELSE default

\* `st.session_state[key] = value`.
Put(s, k, v) == [x \in DOMAIN s \cup {k} |-> IF x = k THEN v ELSE s[x]]

\* A document of `api_keys`: absent, stored without a 'key' field, or stored
\* with one.
ApiKeyDocs ==
    {[exists |-> FALSE, key |-> "None"],
     [exists |-> TRUE,  key |-> "None"],
     [exists |-> TRUE,  key |-> "secret"]}

\* No call of get_api_key() has been made.
NoApiCall == [service |-> "none", result |-> "none", queried |-> FALSE]

\* No sign-in or sign-up has been called.
NoAuthCall == [op |-> "none", user_id |-> "None"]

\* No call of ensure_auth_valid() has been made.
NoAuthCheck == [called |-> FALSE, ok |-> FALSE, contacted |-> FALSE]

\* No other session has signed up or logged in.
NoSignups == [pc |-> [u \in UserIds |-> "idle"], first |-> "None"]

\* The web application before its first request: an empty session and an
\* empty `users` collection; one account may have been created outside the
\* application, and one of the api_keys documents may have been stored by
\* the initialisation script.
WebInit ==
    /\ session = EmptySession
    /\ users = [u \in UserIds |-> "absent"]
    /\ accounts \in {{}, {UserNames[1]}}
    /\ \E doc \in ApiKeyDocs :
          api_keys = [sv \in Services |->
                        IF sv = "anthropic" THEN doc
                        ELSE [exists |-> FALSE, key |-> "None"]]
    /\ firebase_ok \in BOOLEAN
    /\ web_api_key \in BOOLEAN
    /\ rendered = [run |-> 0, pages |-> {}, reads |-> {}, writes |-> {}]
    /\ rerun = FALSE
    /\ api_result = NoApiCall
    /\ auth_call = NoAuthCall
    /\ auth_check = NoAuthCheck
    /\ signups = NoSignups

\* The web application left aside while the executor is explored.
WebAtRest ==
    /\ WebInit
    /\ accounts = {}
    /\ api_keys = [sv \in Services |-> [exists |-> FALSE, key |-> "None"]]
    /\ firebase_ok = TRUE
    /\ web_api_key = TRUE

-----------------------------------------------------------------------------
(* Initial state: a freshly constructed executor (lines 9-12) *)

\* logs/pipeline_execution.json before any summary has been written.
NoSummaryFile ==
    [pipeline_stats |-> [pipeline_duration |-> "absent",
                         current_phase     |-> "absent",
                         phase_duration    |-> "absent"],
     timestamp |-> "absent"]

\* No accessor has been called.
NoAccess == [op |-> "none", outcome |-> "none", phases |-> <<>>]

InitWith(configs) ==
    /\ config \in configs
    /\ domain1_exists = FALSE
    /\ domain2_exists = FALSE
    /\ execution_completed = FALSE
    /\ progress_callback = "unset"
    /\ pipeline_start_time = "None"
    /\ current_phase = "None"
    /\ phase_start_time = "None"
    /\ summary_file = NoSummaryFile
    /\ pc = "idle"
    /\ phases = <<>>
    /\ phases_bound = FALSE
    /\ i = 0
    /\ success = TRUE
    /\ j = 0
    /\ completed = 0
    /\ ret = "notcalled"
    /\ prev = "notcalled"
    /\ calls = 0
    /\ entered_completed = FALSE
    /\ log = <<>>
    /\ events = <<>>
    /\ runs = <<>>
    /\ summary_writes = 0
    /\ raised = {}
    /\ failed_at = 0
    /\ access = NoAccess

\* Executions are explored for every configuration whose unread flags are at
\* their defaults; SpecSelect below covers phase selection for all of them.
Init == InitWith(RunConfigs) /\ WebAtRest

\* The variables of the log sink.
sinkVars == <<pipeline_start_time, current_phase, phase_start_time, summary_file>>
\* The locals of execute().
localVars == <<phases, phases_bound, i, success, j, completed>>
\* The environment of the executor.
envVars == <<config, domain1_exists, domain2_exists>>
\* What identifies the call in progress.
callVars == <<prev, calls, entered_completed, access>>

-----------------------------------------------------------------------------
(* Operations outside execute() *)

\* register_progress_callback(callback), lines 200-202: an observer is
\* registered before execute() is called.
RegisterCallback ==
    /\ pc = "idle"
    /\ calls = 0
    /\ progress_callback = "unset"
    /\ progress_callback' = "cb"
    /\ UNCHANGED <<envVars, execution_completed, sinkVars, pc, localVars, ret,
                   callVars, log, events, runs, summary_writes, raised,
                   failed_at>>
    /\ UNCHANGED webVars

-----------------------------------------------------------------------------
(* execute(), lines 14-78 *)

\* hasattr(self, 'progress_callback') and self.progress_callback
CallbackRegistered == progress_callback = "cb"

\* An exception leaves execute(): the call ends without a return value and
\* without reaching line 77.
Escape(who) ==
    /\ pc' = "idle"
    /\ ret' = "raised"
    /\ raised' = raised \cup {who}
    /\ UNCHANGED execution_completed

\* An exception raised inside the try block of lines 30-61 reaches the
\* handler of line 63.
Caught(who) ==
    /\ pc' = "except"
    /\ raised' = raised \cup {who}
    /\ UNCHANGED <<ret, execution_completed>>

\* Where the loop of line 34 goes after k phases.
AfterPhase(k) == IF k < Len(phases) THEN "loop" ELSE "stats"

\* An executor without the guard of line 19.
AlreadyExecutedNever == FALSE

\* Line 19: the guard against a second execution.
AlreadyExecuted == execution_completed

\* Lines 14-21: execute() is entered.  The call finds each of the two input
\* files present or absent.
Execute ==
    /\ pc = "idle"
    /\ calls < MaxCalls
    /\ domain1_exists' \in BOOLEAN
    /\ domain2_exists' \in BOOLEAN
    /\ calls' = calls + 1
    /\ prev' = ret
    /\ entered_completed' = execution_completed
    /\ log' = <<>>
    /\ events' = <<>>
    /\ runs' = <<>>
    /\ summary_writes' = 0
    /\ raised' = {}
    /\ failed_at' = 0
    /\ access' = NoAccess
    /\ phases' = <<>>
    /\ phases_bound' = FALSE
    /\ i' = 0
    /\ j' = 0
    /\ completed' = 0
    /\ success' = TRUE
    /\ IF AlreadyExecuted
       THEN pc' = "idle" /\ ret' = "false"
       ELSE pc' = "validate" /\ ret' = "running"
    /\ UNCHANGED <<config, execution_completed, progress_callback, sinkVars>>
    /\ UNCHANGED webVars

\* Lines 23-25 with a failed validation marking the execution completed.
Validate_marks_completed ==
    /\ pc = "validate"
    /\ LET msg == validate_error(config, domain1_exists, domain2_exists)
       IN  IF validate_config(config, domain1_exists, domain2_exists)
           THEN /\ pc' = "start_pipeline"
                /\ UNCHANGED <<log, ret, raised, execution_completed>>
           ELSE \/ /\ log' = log \o <<Entry("log_error", "None", FALSE, msg),
                                      Entry("log_error", "None", FALSE,
                                            "Invalid configuration")>>
                   /\ pc' = "idle"
                   /\ ret' = "false"
                   /\ execution_completed' = TRUE
                   /\ UNCHANGED raised
                \/ /\ \E done \in 0..1 :
                        log' = log \o SubSeq(<<Entry("log_error", "None", FALSE, msg)>>,
                                             1, done)
                   /\ pc' = "idle"
                   /\ ret' = "raised"
                   /\ raised' = raised \cup {"sink"}
                   /\ UNCHANGED execution_completed
    /\ UNCHANGED <<envVars, progress_callback, sinkVars,
                   localVars, callVars, events, runs, summary_writes,
                   failed_at>>
    /\ UNCHANGED webVars

\* Lines 23-25 with validate_config, lines 80-101.
Validate ==
    /\ pc = "validate"
    /\ LET msg == validate_error(config, domain1_exists, domain2_exists)
       IN  IF validate_config(config, domain1_exists, domain2_exists)
           THEN /\ pc' = "start_pipeline"
                /\ UNCHANGED <<log, ret, raised>>
           ELSE \/ /\ log' = log \o <<Entry("log_error", "None", FALSE, msg),
                                      Entry("log_error", "None", FALSE,
                                            "Invalid configuration")>>
                   /\ pc' = "idle"
                   /\ ret' = "false"
                   /\ UNCHANGED raised
                \/ /\ \E done \in 0..1 :
                        log' = log \o SubSeq(<<Entry("log_error", "None", FALSE, msg)>>,
                                             1, done)
                   /\ pc' = "idle"
                   /\ ret' = "raised"
                   /\ raised' = raised \cup {"sink"}
    /\ UNCHANGED <<envVars, execution_completed, progress_callback, sinkVars,
                   localVars, callVars, events, runs, summary_writes,
                   failed_at>>
    /\ UNCHANGED webVars

\* Lines 27-28: logger.start_pipeline() (log_manager.py lines 116-119).
StartPipeline ==
    /\ pc = "start_pipeline"
    /\ pipeline_start_time' = "set"
    /\ \/ /\ log' = Append(log, Entry("start_pipeline", "None", TRUE, ""))
          /\ success' = TRUE
          /\ pc' = "select"
          /\ UNCHANGED <<ret, raised, execution_completed>>
       \/ /\ Escape("sink")
          /\ UNCHANGED <<log, success>>
    /\ UNCHANGED <<envVars, progress_callback, current_phase, phase_start_time,
                   summary_file, phases, phases_bound, i, j, completed,
                   callVars, events, runs, summary_writes, failed_at>>
    /\ UNCHANGED webVars

\* Lines 31-32: the phase list is resolved; building it may raise.
GetPhases ==
    /\ pc = "select"
    /\ \/ /\ phases' = _get_phases_to_run(config)
          /\ phases_bound' = TRUE
          /\ pc' = IF Len(_get_phases_to_run(config)) > 0
                   THEN "loop"
                   ELSE "end_pipeline"
          /\ UNCHANGED <<ret, raised, execution_completed>>
       \/ /\ Caught("select")
          /\ UNCHANGED <<phases, phases_bound>>
    /\ UNCHANGED <<envVars, progress_callback, sinkVars, i, success, j,
                   completed, callVars, log, events, runs, summary_writes,
                   failed_at>>
    /\ UNCHANGED webVars

\* report_progress, lines 204-207: the callback is invoked in-line when one
\* is registered; it returns (then) or raises (handle).
ReportProgress(ev, then, handle) ==
    IF CallbackRegistered
    THEN /\ events' = Append(events, ev)
         /\ \/ then
            \/ handle
    ELSE /\ events' = events
         /\ then

\* The phase of the current iteration and its name (line 35).
Phase == phases[i + 1]
phase_name == get_description(Phase)

\* Line 36: logger.start_phase(phase_name) (log_manager.py lines 128-132).
StartPhase ==
    /\ pc = "loop"
    /\ i < Len(phases)
    /\ current_phase' = phase_name
    /\ phase_start_time' = "set"
    /\ \/ /\ log' = Append(log, Entry("start_phase", phase_name, TRUE, ""))
          /\ pc' = "report_start"
          /\ UNCHANGED <<ret, raised, execution_completed>>
       \/ /\ Caught("sink")
          /\ UNCHANGED log
    /\ UNCHANGED <<envVars, progress_callback, pipeline_start_time,
                   summary_file, localVars, callVars, events, runs,
                   summary_writes, failed_at>>
    /\ UNCHANGED webVars

\* Lines 39-40: the "starting" progress event, fraction i / total_phases.
ReportStart ==
    /\ pc = "report_start"
    /\ ReportProgress(Event(phase_name, i, Len(phases), "starting"),
                      pc' = "run" /\ UNCHANGED <<ret, raised, execution_completed>>,
                      Caught("callback"))
    /\ UNCHANGED <<envVars, progress_callback, sinkVars, localVars, callVars,
                   log, runs, summary_writes, failed_at>>
    /\ UNCHANGED webVars

\* Lines 43-47: phase.run() returns True, returns False or raises.
RunPhase ==
    /\ pc = "run"
    /\ runs' = Append(runs, Run(Phase, "loop"))
    /\ \/ /\ pc' = "report_completed"
          /\ UNCHANGED <<success, failed_at, ret, raised, execution_completed>>
       \/ /\ pc' = "report_error"
          /\ success' = FALSE
          /\ failed_at' = i + 1
          /\ UNCHANGED <<ret, raised, execution_completed>>
       \/ /\ Caught("phase")
          /\ UNCHANGED <<success, failed_at>>
    /\ UNCHANGED <<envVars, progress_callback, sinkVars, phases, phases_bound,
                   i, j, completed, callVars, log, events, summary_writes>>
    /\ UNCHANGED webVars

\* The "error" progress event reported as the end of the run, like the
\* event of line 66.
ReportError_full_progress ==
    /\ pc = "report_error"
    /\ ReportProgress(Event(phase_name, 1, 1, "error"),
                      pc' = "end_phase_failed"
                          /\ UNCHANGED <<ret, raised, execution_completed>>,
                      Caught("callback"))
    /\ UNCHANGED <<envVars, progress_callback, sinkVars, localVars, callVars,
                   log, runs, summary_writes, failed_at>>
    /\ UNCHANGED webVars

\* Line 49: the "error" progress event, with the fraction of the start.
ReportError ==
    /\ pc = "report_error"
    /\ ReportProgress(Event(phase_name, i, Len(phases), "error"),
                      pc' = "end_phase_failed"
                          /\ UNCHANGED <<ret, raised, execution_completed>>,
                      Caught("callback"))
    /\ UNCHANGED <<envVars, progress_callback, sinkVars, localVars, callVars,
                   log, runs, summary_writes, failed_at>>
    /\ UNCHANGED webVars

\* logger.end_phase(success, details) (log_manager.py lines 134-155): nothing
\* is recorded when no phase is open; the phase is closed after the entry is
\* logged.
end_phase_logs == current_phase # "None" /\ phase_start_time # "None"
end_phase_entry(ok) == Entry("end_phase", current_phase, ok, "")

\* Lines 50-55: the failed phase is ended and the loop is left.
EndPhaseFailed ==
    /\ pc = "end_phase_failed"
    /\ \/ \* end_phase returns, and so does log_error when it is called
          /\ log' = log
                \o (IF end_phase_logs THEN <<end_phase_entry(FALSE)>> ELSE <<>>)
                \o (IF ContainsAnalysis(phase_name)
                    THEN <<Entry("log_error", "None", FALSE,
                                 "Analysis phase failed - stopping pipeline")>>
                    ELSE <<>>)
          /\ current_phase' = "None"
          /\ phase_start_time' = "None"
          /\ pc' = "stats"
          /\ UNCHANGED <<ret, raised, execution_completed>>
       \/ \* end_phase raises while logging
          /\ end_phase_logs
          /\ Caught("sink")
          /\ UNCHANGED <<log, current_phase, phase_start_time>>
       \/ \* log_error of line 53 raises
          /\ ContainsAnalysis(phase_name)
          /\ log' = log
                \o (IF end_phase_logs THEN <<end_phase_entry(FALSE)>> ELSE <<>>)
          /\ current_phase' = "None"
          /\ phase_start_time' = "None"
          /\ Caught("sink")
    /\ UNCHANGED <<envVars, progress_callback, pipeline_start_time,
                   summary_file, localVars, callVars, events, runs,
                   summary_writes, failed_at>>
    /\ UNCHANGED webVars

\* The "completed" progress event without the update of line 58.
ReportCompleted_stale_progress ==
    /\ pc = "report_completed"
    /\ ReportProgress(Event(phase_name, i, Len(phases), "completed"),
                      pc' = "end_phase"
                          /\ UNCHANGED <<ret, raised, execution_completed>>,
                      Caught("callback"))
    /\ UNCHANGED <<envVars, progress_callback, sinkVars, localVars, callVars,
                   log, runs, summary_writes, failed_at>>
    /\ UNCHANGED webVars

\* Lines 58-59: the "completed" progress event, fraction (i + 1) / total_phases.
ReportCompleted ==
    /\ pc = "report_completed"
    /\ ReportProgress(Event(phase_name, i + 1, Len(phases), "completed"),
                      pc' = "end_phase"
                          /\ UNCHANGED <<ret, raised, execution_completed>>,
                      Caught("callback"))
    /\ UNCHANGED <<envVars, progress_callback, sinkVars, localVars, callVars,
                   log, runs, summary_writes, failed_at>>
    /\ UNCHANGED webVars

\* Line 61: the successful phase is ended; the loop goes on.
EndPhase ==
    /\ pc = "end_phase"
    /\ \/ /\ log' = log
                \o (IF end_phase_logs THEN <<end_phase_entry(TRUE)>> ELSE <<>>)
          /\ current_phase' = "None"
          /\ phase_start_time' = "None"
          /\ i' = i + 1
          /\ pc' = AfterPhase(i + 1)
          /\ UNCHANGED <<ret, raised, execution_completed>>
       \/ /\ end_phase_logs
          /\ Caught("sink")
          /\ UNCHANGED <<log, current_phase, phase_start_time, i>>
    /\ UNCHANGED <<envVars, progress_callback, pipeline_start_time,
                   summary_file, phases, phases_bound, success, j, completed,
                   callVars, events, runs, summary_writes, failed_at>>
    /\ UNCHANGED webVars

\* Lines 63-65: the handler logs the exception and clears `success`.
HandleException ==
    /\ pc = "except"
    /\ \/ /\ log' = Append(log, Entry("log_error", "None", FALSE, "exception"))
          /\ success' = FALSE
          /\ pc' = "report_exception"
          /\ UNCHANGED <<ret, raised, execution_completed>>
       \/ /\ Escape("sink")
          /\ UNCHANGED <<log, success>>
    /\ UNCHANGED <<envVars, progress_callback, sinkVars, phases, phases_bound,
                   i, j, completed, callVars, events, runs, summary_writes,
                   failed_at>>
    /\ UNCHANGED webVars

\* Line 66: the terminal error event, fraction 1.0.
ReportException ==
    /\ pc = "report_exception"
    /\ ReportProgress(Event("Error", 1, 1, "exception"),
                      pc' = "stats" /\ UNCHANGED <<ret, raised, execution_completed>>,
                      Escape("callback"))
    /\ UNCHANGED <<envVars, progress_callback, sinkVars, localVars, callVars,
                   log, runs, summary_writes, failed_at>>
    /\ UNCHANGED webVars

\* Line 70 when `phases` was never assigned: len(phases) raises
\* UnboundLocalError, outside the try block.
StatsUnbound ==
    /\ pc = "stats"
    /\ ~phases_bound
    /\ Escape("unbound")
    /\ UNCHANGED <<envVars, progress_callback, sinkVars, localVars, callVars,
                   log, events, runs, summary_writes, failed_at>>
    /\ UNCHANGED webVars

\* Line 71: len([p for p in phases if p.run()]) invokes run() of every
\* selected phase, outside the try block.
StatsRun ==
    /\ pc = "stats"
    /\ phases_bound
    /\ j < Len(phases)
    /\ runs' = Append(runs, Run(phases[j + 1], "stats"))
    /\ \/ /\ \E r \in BOOLEAN : completed' = completed + (IF r THEN 1 ELSE 0)
          /\ j' = j + 1
          /\ pc' = IF j + 1 < Len(phases) THEN "stats" ELSE "end_pipeline"
          /\ UNCHANGED <<ret, raised, execution_completed>>
       \/ /\ Escape("phase")
          /\ UNCHANGED <<j, completed>>
    /\ UNCHANGED <<envVars, progress_callback, sinkVars, phases, phases_bound,
                   i, success, callVars, log, events, summary_writes,
                   failed_at>>
    /\ UNCHANGED webVars

\* Lines 69-75: logger.end_pipeline(success, stats) (log_manager.py lines
\* 121-126): the start time is cleared after the entry is logged.
EndPipeline ==
    /\ pc = "end_pipeline"
    /\ \/ /\ log' = Append(log, EndEntry(success, Len(phases), completed))
          /\ pipeline_start_time' = "None"
          /\ pc' = "save_summary"
          /\ UNCHANGED <<ret, raised, execution_completed>>
       \/ /\ Escape("sink")
          /\ UNCHANGED <<log, pipeline_start_time>>
    /\ UNCHANGED <<envVars, progress_callback, current_phase, phase_start_time,
                   summary_file, localVars, callVars, events, runs,
                   summary_writes, failed_at>>
    /\ UNCHANGED webVars

\* logger.get_statistics() (log_manager.py lines 157-163).
get_statistics ==
    [pipeline_duration |-> IF pipeline_start_time # "None" THEN "elapsed" ELSE "zero",
     current_phase     |-> current_phase,
     phase_duration    |-> IF phase_start_time # "None" THEN "elapsed" ELSE "zero"]

\* Line 76: logger.save_summary("pipeline_execution.json") (log_manager.py
\* lines 179-191); a failed write is logged, and logging it may raise.
SaveSummary ==
    /\ pc = "save_summary"
    /\ \/ /\ summary_file' = [pipeline_stats |-> get_statistics,
                               timestamp |-> "now"]
          /\ summary_writes' = summary_writes + 1
          /\ pc' = "return"
          /\ UNCHANGED <<ret, raised, execution_completed>>
       \/ /\ Escape("sink")
          /\ UNCHANGED <<summary_file, summary_writes>>
    /\ UNCHANGED <<envVars, progress_callback, pipeline_start_time,
                   current_phase, phase_start_time, localVars, callVars, log,
                   events, runs, failed_at>>
    /\ UNCHANGED webVars

\* Lines 77-78.
Return ==
    /\ pc = "return"
    /\ execution_completed' = TRUE
    /\ ret' = IF success THEN "true" ELSE "false"
    /\ pc' = "idle"
    /\ UNCHANGED <<envVars, progress_callback, sinkVars, localVars, callVars,
                   log, events, runs, summary_writes, raised, failed_at>>
    /\ UNCHANGED webVars

\* The accessors without the test of lines 155 and 189.
Accessed_without_test(op) ==
    \/ access' = [op |-> op, outcome |-> "summary",
                  phases |-> _get_phases_to_run(config)]
    \/ access' = [op |-> op, outcome |-> "raised", phases |-> <<>>]

\* What get_results() and get_execution_summary() do after the test of
\* lines 155 and 189: the phase list is resolved anew (lines 162 and 196),
\* which may raise.
Accessed(op) ==
    IF ~execution_completed
    THEN access' = [op |-> op, outcome |-> "RuntimeError", phases |-> <<>>]
    ELSE \/ access' = [op |-> op, outcome |-> "summary",
                       phases |-> _get_phases_to_run(config)]
         \/ access' = [op |-> op, outcome |-> "raised", phases |-> <<>>]

\* get_results() resetting the flow-control flags it has reported.
GetResults_resets_flags ==
    /\ pc = "idle"
    /\ Accessed("get_results")
    /\ config' = [config EXCEPT !.flags = DefaultFlags]
    /\ UNCHANGED <<domain1_exists, domain2_exists, execution_completed,
                   progress_callback, sinkVars, pc, localVars, ret, prev,
                   calls, entered_completed, log, events, runs,
                   summary_writes, raised, failed_at>>
    /\ UNCHANGED webVars

\* get_results(), lines 149-163.
GetResults ==
    /\ pc = "idle"
    /\ Accessed("get_results")
    /\ UNCHANGED <<envVars, execution_completed, progress_callback, sinkVars,
                   pc, localVars, ret, prev, calls, entered_completed, log,
                   events, runs, summary_writes, raised, failed_at>>
    /\ UNCHANGED webVars

\* get_execution_summary(), lines 183-198.
GetExecutionSummary ==
    /\ pc = "idle"
    /\ Accessed("get_execution_summary")
    /\ UNCHANGED <<envVars, execution_completed, progress_callback, sinkVars,
                   pc, localVars, ret, prev, calls, entered_completed, log,
                   events, runs, summary_writes, raised, failed_at>>
    /\ UNCHANGED webVars

-----------------------------------------------------------------------------

Next ==
    \/ RegisterCallback
    \/ Execute
    \/ Validate
    \/ StartPipeline
    \/ GetPhases
    \/ StartPhase
    \/ ReportStart
    \/ RunPhase
    \/ ReportError
    \/ EndPhaseFailed
    \/ ReportCompleted
    \/ EndPhase
    \/ HandleException
    \/ ReportException
    \/ StatsUnbound
    \/ StatsRun
    \/ EndPipeline
    \/ SaveSummary
    \/ Return
    \/ GetResults
    \/ GetExecutionSummary

Spec == Init /\ [][Next]_vars

\* Phase selection alone, for every configuration: execute() is followed up
\* to the resolution of the phase list (line 31).
InitSelect == InitWith(Configs) /\ WebAtRest

NextSelect ==
    \/ RegisterCallback
    \/ Execute
    \/ Validate
    \/ StartPipeline
    \/ GetPhases

SpecSelect == InitSelect /\ [][NextSelect]_vars

-----------------------------------------------------------------------------
(* The web application (src/src/web/auth_utils.py, streamlit_app.py) *)

\* What a helper returns that changes the session: its result, the session
\* it leaves and whether it sent a request to the token service.
AuthResult(ok, s, contacted) ==
    [ok |-> ok, session |-> s, contacted |-> contacted]

\* sign_out(), lines 337-344.
sign_out(s) ==
    [x \in DOMAIN s \ {"user_id", "email", "display_name", "id_token",
                       "refresh_token", "token_expiry", "authenticated"}
        |-> s[x]]

\* is_token_expired(), lines 320-325; the expiry is "future" until the clock
\* passes it.
is_token_expired(s) ==
    IF ~Has(s, "token_expiry") THEN TRUE ELSE s["token_expiry"] = "past"

\* refresh_auth_token() dropping the tokens it could not refresh.
refresh_auth_token_drops_tokens(s, key, resp) ==
    IF ~Has(s, "refresh_token") THEN AuthResult(FALSE, s, FALSE)
    ELSE IF ~key THEN AuthResult(FALSE, s, FALSE)
    ELSE IF resp # "ok"
    THEN AuthResult(FALSE,
                    [x \in DOMAIN s \ {"id_token", "refresh_token",
                                       "token_expiry"} |-> s[x]],
                    TRUE)
    ELSE AuthResult(TRUE,
                    Put(Put(Put(s, "id_token", "token"),
                            "refresh_token", "token"),
                        "token_expiry", "future"),
                    TRUE)

\* refresh_auth_token(), lines 285-318; resp is the answer of the token
\* endpoint ("ok", or "error" for an error body or a failed request).
refresh_auth_token(s, key, resp) ==
    IF ~Has(s, "refresh_token") THEN AuthResult(FALSE, s, FALSE)
    ELSE IF ~key THEN AuthResult(FALSE, s, FALSE)
    ELSE IF resp # "ok" THEN AuthResult(FALSE, s, TRUE)
    ELSE AuthResult(TRUE,
                    Put(Put(Put(s, "id_token", "token"),
                            "refresh_token", "token"),
                        "token_expiry", "future"),
                    TRUE)

\* ensure_auth_valid() taking every authenticated session for valid.
ensure_auth_valid_ignores_expiry(s, key, resp) ==
    IF ~Has(s, "authenticated") \/ s["authenticated"] # "True"
    THEN AuthResult(FALSE, s, FALSE)
    ELSE AuthResult(TRUE, s, FALSE)

\* ensure_auth_valid(), lines 327-335.
ensure_auth_valid(s, key, resp) ==
    IF ~Has(s, "authenticated") \/ s["authenticated"] # "True"
    THEN AuthResult(FALSE, s, FALSE)
    ELSE IF is_token_expired(s)
    THEN refresh_auth_token(s, key, resp)
    ELSE AuthResult(TRUE, s, FALSE)

\* get_user_role(), lines 346-357, for a session whose token is not expired
\* (main() has called ensure_auth_valid() before).
get_user_role(s, key, resp, fb, us) ==
    IF ~ensure_auth_valid(s, key, resp).ok \/ ~Has(s, "user_id") THEN "None"
    ELSE IF fb /\ us[s["user_id"]] # "absent" THEN us[s["user_id"]]
    ELSE "None"

\* is_admin(), lines 359-361.
is_admin(s, key, resp, fb, us) == get_user_role(s, key, resp, fb, us) = "admin"

\* check_and_set_first_user_as_admin(), lines 273-283.
check_and_set_first_user_as_admin(us, fb, u) ==
    IF fb /\ Cardinality({x \in UserIds : us[x] # "absent"}) = 1
    THEN [us EXCEPT ![u] = "admin"]
    ELSE us

\* The session keys both sign-up and sign-in store, lines 184-189, 237-242.
StoreTokens(s, u) ==
    Put(Put(Put(Put(Put(Put(s, "user_id", u), "email", "email"),
                    "display_name", "name"), "id_token", "token"),
            "refresh_token", "token"), "token_expiry", "future")

\* What sign-in and sign-up return and leave behind.
SignResult(uid, s, us, acc) ==
    [user_id |-> uid, session |-> s, users |-> us, accounts |-> acc]

\* sign_in_with_email_password(), lines 198-271, for the account u; resp is
\* the answer of the sign-in endpoint.
sign_in_with_email_password(s, us, acc, key, fb, u, resp) ==
    IF ~key THEN SignResult("None", s, us, acc)
    ELSE IF resp # "ok" \/ u \notin acc THEN SignResult("None", s, us, acc)
    ELSE IF ~fb THEN SignResult("None", s, us, acc)
    ELSE IF us[u] # "absent"
    THEN SignResult(u, Put(StoreTokens(s, u), "authenticated", "True"),
                    us, acc)
    ELSE SignResult(u, s,
                    check_and_set_first_user_as_admin(
                        [us EXCEPT ![u] = "user"], fb, u),
                    acc)

\* signup_with_email_password(), lines 131-196, for the new account u; the
\* sign-up endpoint refuses an account that exists.
signup_with_email_password(s, us, acc, key, fb, u, resp) ==
    IF ~fb THEN SignResult("None", s, us, acc)
    ELSE IF ~key THEN SignResult("None", s, us, acc)
    ELSE IF resp # "ok" \/ u \in acc THEN SignResult("None", s, us, acc)
    ELSE SignResult(u, StoreTokens(s, u),
                    check_and_set_first_user_as_admin(
                        [us EXCEPT ![u] = "user"], fb, u),
                    acc \cup {u})

\* What get_api_key() returns, and whether it read the api_keys collection.
ApiResult(result, queried) == [result |-> result, queried |-> queried]

\* get_api_key() without the session check of lines 43-44.
get_api_key_without_session_check(s, fb, keys, service_name) ==
    IF fb
    THEN IF keys[service_name].exists
         THEN ApiResult(keys[service_name].key, TRUE)
         ELSE ApiResult("None", TRUE)
    ELSE ApiResult("None", FALSE)

\* get_api_key(), streamlit_app.py lines 41-51.
get_api_key(s, fb, keys, service_name) ==
    IF ~Has(s, "user_id") THEN ApiResult("None", FALSE)
    ELSE IF fb
    THEN IF keys[service_name].exists
         THEN ApiResult(keys[service_name].key, TRUE)
         ELSE ApiResult("None", TRUE)
    ELSE ApiResult("None", FALSE)

\* A call of get_api_key(service_name).
GetApiKey(service_name) ==
    /\ api_result' =
          [service |-> service_name,
           result |-> get_api_key(session, firebase_ok, api_keys,
                                  service_name).result,
           queried |-> get_api_key(session, firebase_ok, api_keys,
                                   service_name).queried]
    /\ auth_check' = NoAuthCheck
    /\ UNCHANGED <<session, users, accounts, api_keys, firebase_ok,
                   web_api_key, rendered, rerun, auth_call, signups>>
    /\ UNCHANGED execVars

\* The clock passes the expiry of the token (auth_utils.py line 325).
TokenExpires ==
    /\ Has(session, "token_expiry")
    /\ session["token_expiry"] = "future"
    /\ session' = Put(session, "token_expiry", "past")
    /\ UNCHANGED <<users, accounts, api_keys, firebase_ok, web_api_key,
                   rendered, rerun, api_result, auth_call, auth_check,
                   signups>>
    /\ UNCHANGED execVars

\* A call of ensure_auth_valid() outside main(): by get_user_role() or by a
\* page.
EnsureAuthValid ==
    \E resp \in {"ok", "error"} :
        LET v == ensure_auth_valid(session, web_api_key, resp)
        IN  /\ session' = v.session
            /\ auth_check' = [called |-> TRUE, ok |-> v.ok,
                              contacted |-> v.contacted]
            /\ api_result' = NoApiCall
            /\ UNCHANGED <<users, accounts, api_keys, firebase_ok,
                           web_api_key, rendered, rerun, auth_call, signups>>
            /\ UNCHANGED execVars

\* The buttons of the login page, lines 225-274.
LoginButtons == {"Login", "Sign Up", "Reset Password"}

\* The navigation buttons of the sidebar, lines 1010-1032, and their pages.
NavButtons == {"Search", "Results", "Profile", "API Settings",
               "Admin Dashboard"}

AdminButtons == {"API Settings", "Admin Dashboard"}

PageOf(button) ==
    CASE button = "Search" -> "search"
      [] button = "Results" -> "results"
      [] button = "Profile" -> "profile"
      [] button = "API Settings" -> "api_settings"
      [] button = "Admin Dashboard" -> "admin"

\* The buttons inside the pages that change the page, the stored keys or
\* the user documents (lines 359, 434, 711, 762-781, 920-945), and the page
\* each is on.
PageButtons == {"Start Search", "View Results", "Rerun Search",
                "Update API Keys", "Set as Admin", "Set as User",
                "Reset Search Count"}

\* The buttons of the user management, lines 920-945.
UserButtons == {"Set as Admin", "Set as User", "Reset Search Count"}

ButtonPage(button) ==
    CASE button = "Start Search" -> "search"
      [] button = "View Results" -> "execution"
      [] button = "Rerun Search" -> "profile"
      [] button = "Update API Keys" -> "api_settings"
      [] button \in UserButtons -> "admin"

Clicks == {"none", "Logout", "Back to Search"} \cup LoginButtons
             \cup NavButtons \cup PageButtons

\* A widget can be clicked if the last run of main() drew it and did not end
\* in st.rerun().
ClickEnabled(click) ==
    \/ click = "none"
    \/ /\ ~rerun
       /\ \/ click \in LoginButtons /\ rendered.pages = {"login"}
          \/ /\ click \in NavButtons \cup {"Logout"}
             /\ rendered.pages # {}
             /\ "login" \notin rendered.pages
          \/ click \in PageButtons /\ rendered.pages = {ButtonPage(click)}
          \/ /\ click = "Back to Search"
             /\ rendered.pages \cap {"execution", "results"} # {}

\* The state main() leaves: the session, the collections, the pages it
\* rendered, whether it ended in st.rerun(), the sign-in or sign-up call it
\* made, and the collections the page function read and wrote.
MainResult(s, us, acc, keys, pages, rr) ==
    [session |-> s, users |-> us, accounts |-> acc, api_keys |-> keys,
     pages |-> pages, rerun |-> rr, auth |-> NoAuthCall, reads |-> {},
     writes |-> {}]

\* render_login_page(), lines 225-274, with the button handled in this run.
render_login_page(s, click, u, resp) ==
    LET r == IF click = "Login"
             THEN sign_in_with_email_password(s, users, accounts, web_api_key,
                                              firebase_ok, u, resp)
             ELSE IF click = "Sign Up"
             THEN signup_with_email_password(s, users, accounts, web_api_key,
                                             firebase_ok, u, resp)
             ELSE SignResult("None", s, users, accounts)
    IN  [MainResult(r.session, r.users, r.accounts, api_keys, {"login"},
                    r.user_id # "None")
            EXCEPT !.auth = IF click = "Login"
                            THEN [op |-> "sign_in", user_id |-> r.user_id]
                            ELSE IF click = "Sign Up"
                            THEN [op |-> "signup", user_id |-> r.user_id]
                            ELSE NoAuthCall]

\* render_api_settings_page(), lines 716-782; new_keys are the services whose
\* new key was filled in.
render_api_settings_page(s, click, new_keys) ==
    IF ~firebase_ok
    THEN MainResult(s, users, accounts, api_keys, {"api_settings"}, FALSE)
    ELSE IF users[s["user_id"]] # "admin"
    THEN [MainResult(s, users, accounts, api_keys, {"api_settings"}, FALSE)
             EXCEPT !.reads = {"users"}]
    ELSE IF click = "Update API Keys"
    THEN [MainResult(s, users, accounts,
                     [sv \in Services |->
                         IF sv \in new_keys
                         THEN [exists |-> TRUE, key |-> "secret"]
                         ELSE api_keys[sv]],
                     {"api_settings"}, new_keys # {})
             EXCEPT !.reads = {"users", "api_keys"},
                    !.writes = IF new_keys # {} THEN {"api_keys"} ELSE {}]
    ELSE [MainResult(s, users, accounts, api_keys, {"api_settings"}, FALSE)
             EXCEPT !.reads = {"users", "api_keys"}]

\* render_admin_page() without the test of lines 860-862.
render_admin_page_without_role_test(s, click, u) ==
    IF ~firebase_ok
    THEN MainResult(s, users, accounts, api_keys, {"admin"}, FALSE)
    ELSE IF click \in UserButtons /\ users[u] # "absent"
    THEN [MainResult(s,
                     IF click = "Set as Admin"
                     THEN [users EXCEPT ![u] = "admin"]
                     ELSE IF click = "Set as User"
                     THEN [users EXCEPT ![u] = "user"]
                     ELSE users,
                     accounts, api_keys, {"admin"}, TRUE)
             EXCEPT !.reads = {"users"}, !.writes = {"users"}]
    ELSE [MainResult(s, users, accounts, api_keys, {"admin"}, FALSE)
             EXCEPT !.reads = {"users"}]

\* render_admin_page(), lines 847-947; u is the user selected in the user
\* management.
render_admin_page(s, click, u) ==
    IF ~firebase_ok
    THEN MainResult(s, users, accounts, api_keys, {"admin"}, FALSE)
    ELSE IF users[s["user_id"]] # "admin"
    THEN [MainResult(s, users, accounts, api_keys, {"admin"}, FALSE)
             EXCEPT !.reads = {"users"}]
    ELSE IF click \in UserButtons /\ users[u] # "absent"
    THEN [MainResult(s,
                     IF click = "Set as Admin"
                     THEN [users EXCEPT ![u] = "admin"]
                     ELSE IF click = "Set as User"
                     THEN [users EXCEPT ![u] = "user"]
                     ELSE users,
                     accounts, api_keys, {"admin"}, TRUE)
             EXCEPT !.reads = {"users"}, !.writes = {"users"}]
    ELSE [MainResult(s, users, accounts, api_keys, {"admin"}, FALSE)
             EXCEPT !.reads = {"users"}]

\* The page dispatch of lines 1042-1053 with the button of the page handled
\* in this run.
render_page(s, click, u, new_keys) ==
    LET page == s["page"]
    IN  IF click = "Start Search" /\ page = "search"
        THEN MainResult(Put(s, "page", "execution"), users, accounts,
                        api_keys, {page}, TRUE)
        ELSE IF click = "View Results" /\ page = "execution"
        THEN MainResult(Put(s, "page", "results"), users, accounts,
                        api_keys, {page}, TRUE)
        ELSE IF click = "Rerun Search" /\ page = "profile"
        THEN MainResult(Put(s, "page", "search"), users, accounts,
                        api_keys, {page}, TRUE)
        ELSE IF page = "api_settings"
        THEN render_api_settings_page(s, click, new_keys)
        ELSE IF page = "admin"
        THEN render_admin_page(s, click, u)
        ELSE MainResult(s, users, accounts, api_keys, {page}, FALSE)

\* The sidebar of lines 1000-1039 for a session whose authentication is
\* valid, followed by the page dispatch.
render_app(s, click, u, new_keys, resp) ==
    IF click \in NavButtons \ AdminButtons
    THEN MainResult(Put(s, "page", PageOf(click)), users, accounts, api_keys,
                    {}, TRUE)
    ELSE IF /\ click \in AdminButtons
            /\ is_admin(s, web_api_key, resp, firebase_ok, users)
    THEN MainResult(Put(s, "page", PageOf(click)), users, accounts, api_keys,
                    {}, TRUE)
    ELSE IF click = "Logout"
    THEN MainResult(sign_out(s), users, accounts, api_keys, {}, TRUE)
    ELSE render_page(s, click, u, new_keys)

\* main(), lines 970-1053, as one run of the script.  A "Back to Search"
\* click runs its on_click callback before the script.
main(click, u, resp, new_keys) ==
    LET s0 == IF click = "Back to Search"
              THEN Put(session, "page", "search")
              ELSE session
        s1 == IF Has(s0, "authenticated") THEN s0
              ELSE Put(s0, "authenticated", "False")
        s2 == IF Has(s1, "page") THEN s1 ELSE Put(s1, "page", "search")
        v  == ensure_auth_valid(s2, web_api_key, resp)
    IN  IF Get(s2, "authenticated", "False") = "True" /\ ~v.ok
        THEN MainResult(sign_out(v.session), users, accounts, api_keys, {},
                        TRUE)
        ELSE IF Get(s2, "authenticated", "False") # "True"
        THEN render_login_page(s2, click, u, resp)
        ELSE render_app(v.session, click, u, new_keys, resp)

\* One run of main().
Main ==
    \E click \in {c \in Clicks : ClickEnabled(c)} :
      \E resp \in IF click \in {"Login", "Sign Up"} \/ is_token_expired(session)
                   THEN {"ok", "error"} ELSE {"ok"} :
      \E u \in IF click \in {"Login", "Sign Up"} \cup UserButtons
                THEN UserIds ELSE {UserNames[1]},
         new_keys \in IF click = "Update API Keys"
                      THEN SUBSET Services ELSE {{}} :
        /\ \E r \in {main(click, u, resp, new_keys)} :
               /\ session' = r.session
               /\ users' = r.users
               /\ accounts' = r.accounts
               /\ api_keys' = r.api_keys
               /\ rendered' = [run |-> 1 - rendered.run, pages |-> r.pages,
                               reads |-> r.reads, writes |-> r.writes]
               /\ rerun' = r.rerun
               /\ auth_call' = r.auth
        /\ api_result' = NoApiCall
        /\ auth_check' = NoAuthCheck
        /\ UNCHANGED <<firebase_ok, web_api_key, signups>>
        /\ UNCHANGED execVars

\* get_results() called while execute() is running: by the progress
\* callback or by another thread.
GetResultsWhileRunning ==
    /\ pc # "idle"
    /\ Accessed("get_results")
    /\ UNCHANGED <<envVars, execution_completed, progress_callback, sinkVars,
                   pc, localVars, ret, prev, calls, entered_completed, log,
                   events, runs, summary_writes, raised, failed_at>>
    /\ UNCHANGED webVars

\* get_execution_summary() called while execute() is running.
GetExecutionSummaryWhileRunning ==
    /\ pc # "idle"
    /\ Accessed("get_execution_summary")
    /\ UNCHANGED <<envVars, execution_completed, progress_callback, sinkVars,
                   pc, localVars, ret, prev, calls, entered_completed, log,
                   events, runs, summary_writes, raised, failed_at>>
    /\ UNCHANGED webVars

\* The executor with accessors called at any time, for the configurations
\* that select the report alone.
InitAccess == InitWith({c \in RunConfigs : c.flags["only_report"]}) /\ WebAtRest

NextAccess ==
    \/ Next
    \/ GetResultsWhileRunning
    \/ GetExecutionSummaryWhileRunning

SpecAccess == InitAccess /\ [][NextAccess]_vars

\* The steps execute() takes once it is entered (lines 23-78).
Running ==
    \/ Validate
    \/ StartPipeline
    \/ GetPhases
    \/ StartPhase
    \/ ReportStart
    \/ RunPhase
    \/ ReportError
    \/ EndPhaseFailed
    \/ ReportCompleted
    \/ EndPhase
    \/ HandleException
    \/ ReportException
    \/ StatsUnbound
    \/ StatsRun
    \/ EndPipeline
    \/ SaveSummary
    \/ Return

NextLive ==
    \/ RegisterCallback
    \/ Execute
    \/ Running

\* execute() runs in the caller's thread: once entered it goes on as long as
\* the collaborator it has called comes back; the caller is free to call
\* execute() or not.
SpecLive == Init /\ [][NextLive]_vars /\ WF_vars(Running)

\* The user document of u is written, with role 'user', by a sign-up or a
\* first login in another session.
DocumentWritten(u) ==
    /\ users' = [users EXCEPT ![u] = "user"]
    /\ signups' = [pc |-> [signups.pc EXCEPT ![u] = "written"],
                   first |-> IF signups.first = "None" THEN u
                             ELSE signups.first]

\* signup_with_email_password() in another session, lines 131-164: the
\* sign-up endpoint creates the account.
SignupAccount(u) ==
    /\ signups.pc[u] = "idle"
    /\ web_api_key
    /\ u \notin accounts
    /\ accounts' = accounts \cup {u}
    /\ signups' = [signups EXCEPT !.pc[u] = "account"]
    /\ UNCHANGED <<session, users, api_keys, firebase_ok, web_api_key,
                   rendered, rerun, api_result, auth_call, auth_check>>
    /\ UNCHANGED execVars

\* Lines 166-181: with a database, the user document is written; without
\* one the sign-up ends there.
SignupWrite(u) ==
    /\ signups.pc[u] = "account"
    /\ IF firebase_ok THEN DocumentWritten(u)
       ELSE /\ signups' = [signups EXCEPT !.pc[u] = "done"]
            /\ UNCHANGED users
    /\ UNCHANGED <<session, accounts, api_keys, firebase_ok, web_api_key,
                   rendered, rerun, api_result, auth_call, auth_check>>
    /\ UNCHANGED execVars

\* sign_in_with_email_password() in another session, lines 198-261, for an
\* account without user document: the document is written.
SigninWrite(u) ==
    /\ signups.pc[u] = "idle"
    /\ firebase_ok
    /\ web_api_key
    /\ u \in accounts
    /\ users[u] = "absent"
    /\ DocumentWritten(u)
    /\ UNCHANGED <<session, accounts, api_keys, firebase_ok, web_api_key,
                   rendered, rerun, api_result, auth_call, auth_check>>
    /\ UNCHANGED execVars

\* check_and_set_first_user_as_admin(u), called at lines 184 and 264 once
\* the document is written; lines 275-279: the query of at most two user
\* documents and the test of their number.
FirstUserQuery(u) ==
    /\ signups.pc[u] = "written"
    /\ signups' = [signups EXCEPT !.pc[u] =
                      IF firebase_ok
                         /\ Cardinality({x \in UserIds : users[x] # "absent"}) = 1
                      THEN "first" ELSE "done"]
    /\ UNCHANGED <<session, users, accounts, api_keys, firebase_ok,
                   web_api_key, rendered, rerun, api_result, auth_call,
                   auth_check>>
    /\ UNCHANGED execVars

\* Lines 280-283: the update of the role, after a query that found one
\* document.
FirstUserUpdate(u) ==
    /\ signups.pc[u] = "first"
    /\ users' = [users EXCEPT ![u] = "admin"]
    /\ signups' = [signups EXCEPT !.pc[u] = "done"]
    /\ UNCHANGED <<session, accounts, api_keys, firebase_ok, web_api_key,
                   rendered, rerun, api_result, auth_call, auth_check>>
    /\ UNCHANGED execVars

\* Sign-ups and first logins of several browser sessions, interleaved.
NextSignup ==
    \/ \E u \in UserIds : SignupAccount(u)
    \/ \E u \in UserIds : SignupWrite(u)
    \/ \E u \in UserIds : SigninWrite(u)
    \/ \E u \in UserIds : FirstUserQuery(u)
    \/ \E u \in UserIds : FirstUserUpdate(u)

\* The web application alone, beside an executor that is never called.
InitWeb == InitWith({c \in RunConfigs : validate_config(c, TRUE, TRUE)
                                        /\ c.flags = DefaultFlags})
             /\ WebInit

NextWeb ==
    \/ Main
    \/ TokenExpires
    \/ EnsureAuthValid
    \/ \E service_name \in Services : GetApiKey(service_name)

SpecWeb == InitWeb /\ [][NextWeb]_vars

SpecSignup == InitWeb /\ [][NextSignup]_vars

TypeOK ==
    /\ config \in Configs
    /\ pc \in {"idle", "validate", "start_pipeline", "select", "loop",
               "report_start", "run", "report_error", "end_phase_failed",
               "report_completed", "end_phase", "except", "report_exception",
               "stats", "end_pipeline", "save_summary", "return"}
    /\ ret \in {"notcalled", "running", "true", "false", "raised"}
    /\ calls \in 0..MaxCalls
    /\ i \in 0..Len(phases)
    /\ j \in 0..Len(phases)
    /\ users \in [UserIds -> {"absent", "user", "admin"}]
    /\ accounts \subseteq UserIds
    /\ api_keys \in [Services -> ApiKeyDocs]
    /\ rendered.pages \subseteq Pages
    /\ rendered.run \in {0, 1}
    /\ DOMAIN session \subseteq {"authenticated", "page", "user_id", "email",
                                 "display_name", "id_token", "refresh_token",
                                 "token_expiry"}
    /\ auth_call.op \in {"none", "sign_in", "signup"}
    /\ auth_check \in [called : BOOLEAN, ok : BOOLEAN, contacted : BOOLEAN]
    /\ signups.pc \in [UserIds -> {"idle", "account", "written", "first",
                                    "done"}]
    /\ signups.first \in UserIds \cup {"None"}

-----------------------------------------------------------------------------
(* Properties *)

\* The call has ended: execute() returned or an exception left it.
CallEnded == calls > 0 /\ pc = "idle"

\* The flag f of the configuration.
Flag(f) == config.flags[f]

\* Position of a selected phase in the phase list.
PhaseIndex(p) == CHOOSE k \in 1..Len(phases) : phases[k] = p

\* Number of invocations of run() of phase p in this call.
RunCount(p) == Cardinality({n \in 1..Len(runs) : runs[n].phase = p})

\* C1: if phase k of the selected phases returns false from run(), no run()
\* of a phase k+1..n is invoked during that execute() call and execute()
\* returns false.
C1_FailFast ==
    failed_at > 0 =>
        /\ \A n \in 1..Len(runs) : PhaseIndex(runs[n].phase) <= failed_at
        /\ (CallEnded /\ ret # "raised" => ret = "false")

\* C2: during one execute() call the run() of each selected phase is invoked
\* at most once.
C2_RunAtMostOnce ==
    \A k \in 1..Len(phases) : RunCount(phases[k]) <= 1

C4_NoExceptionEscapes ==
    (CallEnded /\ raised # {} /\ raised \subseteq {"phase", "select", "unbound"}) =>
        /\ ret = "false"
        /\ execution_completed
        /\ \E n \in 1..Len(log) : log[n].op = "end_pipeline"
        /\ (CallbackRegistered =>
               \E n \in 1..Len(events) : events[n].kind = "exception")

\* C5: when the progress callback or the log sink raises at one of its
\* invocations, execute() does not raise: it returns false.
C5_CollaboratorFailureCaught ==
    (CallEnded /\ raised # {} /\ raised \subseteq {"sink", "callback"}) =>
        ret = "false"

\* The inputs validation must reject: no configuration, a required field
\* missing, or an input file that does not exist.
InvalidInputs ==
    \/ ~config.present
    \/ \E field \in {"domain1", "domain2", "figures_dir"} : field \notin config.has
    \/ ~domain1_exists
    \/ ~domain2_exists

\* C6: when validation fails, no run() is invoked, no phase list is resolved
\* and execute() returns false (it never returns true, and it returns false
\* whenever the log sink accepted the error entries).
C6_InvalidConfigRunsNothing ==
    (calls > 0 /\ InvalidInputs) =>
        /\ runs = <<>>
        /\ ~phases_bound
        /\ events = <<>>
        /\ pc \in {"idle", "validate"}
        /\ ret # "true"
        /\ (CallEnded /\ "sink" \notin raised => ret = "false")

C6_Witness ==
    /\ CallEnded
    /\ calls = 1
    /\ config.present
    /\ config.has = required_fields
    /\ domain1_exists
    /\ ~domain2_exists
    /\ ret = "false"
    /\ Len(log) = 2
    /\ runs = <<>>

\* C7: with only_report set, phase selection yields exactly [ReportPhase],
\* whatever the other flags are.
C7_OnlyReport ==
    (phases_bound /\ Flag("only_report")) => phases = <<"ReportPhase">>

C7_Witness ==
    /\ phases_bound
    /\ Flag("only_report")
    /\ Flag("only_analysis")
    /\ Flag("only_search")
    /\ Flag("skip_domain_analysis")
    /\ phases = <<"ReportPhase">>

\* C8 as stated: with only_analysis set, selection yields
\* [AnalysisPhase, TableExportPhase] when skip_table is false and
\* [AnalysisPhase] when it is true.
C8_OnlyAnalysisAnyReport ==
    (phases_bound /\ Flag("only_analysis")) =>
        phases = IF Flag("skip_table")
                 THEN <<"AnalysisPhase">>
                 ELSE <<"AnalysisPhase", "TableExportPhase">>

\* C8 amended: with only_analysis set and only_report not set, selection
\* yields [AnalysisPhase, TableExportPhase] when skip_table is false and
\* [AnalysisPhase] when it is true.
C8_OnlyAnalysis ==
    (phases_bound /\ Flag("only_analysis") /\ ~Flag("only_report")) =>
        phases = IF Flag("skip_table")
                 THEN <<"AnalysisPhase">>
                 ELSE <<"AnalysisPhase", "TableExportPhase">>

C8_Witness ==
    /\ phases_bound
    /\ Flag("only_analysis")
    /\ ~Flag("only_report")
    /\ Flag("skip_table")
    /\ phases = <<"AnalysisPhase">>

\* The phase p is among the selected phases.
Selected(p) == \E k \in 1..Len(phases) : phases[k] = p

\* No only_* flag is set.
FullPipeline ==
    ~Flag("only_report") /\ ~Flag("only_analysis") /\ ~Flag("only_search")

\* C9: in the full pipeline with skip_domain_analysis set, neither
\* DomainAnalysis nor Classification is selected, whatever skip_classification.
C9_SkipDomainAnalysis ==
    (phases_bound /\ FullPipeline /\ Flag("skip_domain_analysis")) =>
        /\ ~Selected("DomainAnalysisPhase")
        /\ ~Selected("ClassificationPhase")

C9_Witness ==
    /\ phases_bound
    /\ FullPipeline
    /\ Flag("skip_domain_analysis")
    /\ ~Flag("skip_classification")
    /\ Selected("SearchPhase")
    /\ Selected("AnalysisPhase")

\* C10: precedence only_report > only_analysis > only_search > full pipeline:
\* without only_report, only_analysis together with only_search selects by
\* the analysis rule; without only_report and only_analysis, only_search
\* selects exactly [SearchPhase], whatever the skip_* flags.
C10_Precedence ==
    phases_bound =>
        /\ (~Flag("only_report") /\ Flag("only_analysis") /\ Flag("only_search")
               => /\ phases[1] = "AnalysisPhase"
                  /\ ~Selected("SearchPhase")
                  /\ Len(phases) = IF Flag("skip_table") THEN 1 ELSE 2)
        /\ (~Flag("only_report") /\ ~Flag("only_analysis") /\ Flag("only_search")
               => phases = <<"SearchPhase">>)

C10_Witness ==
    /\ phases_bound
    /\ ~Flag("only_report")
    /\ Flag("only_analysis")
    /\ Flag("only_search")
    /\ ~Flag("skip_table")
    /\ phases = <<"AnalysisPhase", "TableExportPhase">>

\* Position of a phase in the canonical order.
CanonIndex(p) == CHOOSE k \in 1..Len(CanonicalPhases) : CanonicalPhases[k] = p

\* C11: in the full pipeline the selected list is a duplicate-free
\* subsequence of the canonical order; the three removals compose; Search,
\* Analysis and Report are always selected, TableExport iff skip_table is
\* false; with every flag false all six phases are selected in order.
C11_FullPipelineSubsequence ==
    (phases_bound /\ FullPipeline) =>
        /\ \A a \in 1..Len(phases) : \E k \in 1..6 : CanonicalPhases[k] = phases[a]
        /\ \A a \in 1..Len(phases), b \in 1..Len(phases) :
              a < b => CanonIndex(phases[a]) < CanonIndex(phases[b])
        /\ Selected("SearchPhase")
        /\ Selected("AnalysisPhase")
        /\ Selected("ReportPhase")
        /\ (Selected("TableExportPhase") <=> ~Flag("skip_table"))
        /\ (Selected("DomainAnalysisPhase") <=> ~Flag("skip_domain_analysis"))
        /\ (Selected("ClassificationPhase") <=>
               (~Flag("skip_domain_analysis") /\ ~Flag("skip_classification")))
        /\ ((\A f \in FlagNames : ~Flag(f)) => phases = CanonicalPhases)

C11_Witness ==
    /\ phases_bound
    /\ FullPipeline
    /\ Flag("skip_classification")
    /\ Flag("skip_table")
    /\ ~Flag("skip_domain_analysis")
    /\ phases = <<"SearchPhase", "DomainAnalysisPhase", "AnalysisPhase",
                  "ReportPhase">>

\* The phases whose run() was invoked in this call, in the order of the
\* invocations.
Invoked == [n \in 1..Len(runs) |-> runs[n].phase]

\* C12: with a valid configuration, no skip/only flag and every run()
\* returning true, execute() returns true, the six phases are invoked one
\* after another in the canonical order, and the last progress event carries
\* the fraction 1.0.
C12_AllPhasesSucceed ==
    (/\ CallEnded
     /\ ~entered_completed
     /\ ~InvalidInputs
     /\ config.flags = DefaultFlags
     /\ raised = {}
     /\ failed_at = 0
     /\ completed = Len(phases)) =>
        /\ ret = "true"
        /\ Invoked = CanonicalPhases
        /\ (CallbackRegistered =>
               /\ events # <<>>
               /\ events[Len(events)].num = events[Len(events)].den)

\* C13: once the execution-completed marker is set it is never cleared, the
\* executor never leaves the idle position again and no run() is invoked.
C13_CompletedIsFinal ==
    [][execution_completed =>
          /\ execution_completed'
          /\ pc' = "idle"
          /\ runs' \in {runs, <<>>}]_vars

C13_Witness ==
    /\ execution_completed
    /\ CallEnded
    /\ calls = 2
    /\ entered_completed
    /\ prev = "false"
    /\ runs = <<>>

\* C14: after a call of execute() has returned true or false, get_results()
\* and get_execution_summary() return a summary.
C14_SummaryRetrievable ==
    (pc = "idle" /\ ret \in {"true", "false"} /\ access.op # "none") =>
        access.outcome = "summary"

\* Number of events of one kind delivered for a phase name.
EventCount(name, kind) ==
    Cardinality({n \in 1..Len(events) :
                    events[n].phase = name /\ events[n].kind = kind})

\* Number of invocations of run() made by the loop of lines 34-61.
LoopRuns == Cardinality({n \in 1..Len(runs) : runs[n].where = "loop"})

\* C15: every progress event carries a fraction in [0,1]; in iteration i of n
\* the "starting" event carries i/n and precedes the invocation of run(); a
\* run() of the loop that returned true is followed by exactly one
\* "completed" event with (i+1)/n, one that returned false by exactly one
\* "error" event with i/n.
C15_ProgressEvents ==
    /\ \A n \in 1..Len(events) :
          events[n].den > 0 /\ events[n].num <= events[n].den
    /\ (~CallbackRegistered => events = <<>>)
    /\ (CallbackRegistered =>
          /\ (pc = "run" =>
                 /\ events[Len(events)] =
                       Event(phase_name, i, Len(phases), "starting")
                 /\ LoopRuns = i)
          /\ (pc = "end_phase" =>
                 /\ events[Len(events)] =
                       Event(phase_name, i + 1, Len(phases), "completed")
                 /\ EventCount(phase_name, "completed") = 1
                 /\ EventCount(phase_name, "error") = 0)
          /\ (pc = "end_phase_failed" =>
                 /\ events[Len(events)] =
                       Event(phase_name, i, Len(phases), "error")
                 /\ EventCount(phase_name, "error") = 1
                 /\ EventCount(phase_name, "completed") = 0)
          /\ \A k \in 1..Len(phases) :
                /\ EventCount(get_description(phases[k]), "starting") <= 1
                /\ EventCount(get_description(phases[k]), "completed")
                     + EventCount(get_description(phases[k]), "error") <= 1
                /\ EventCount(get_description(phases[k]), "completed")
                     + EventCount(get_description(phases[k]), "error")
                     <= Cardinality({n \in 1..Len(runs) :
                                        /\ runs[n].where = "loop"
                                        /\ runs[n].phase = phases[k]}))

C15_Witness ==
    /\ CallbackRegistered
    /\ pc = "end_phase"
    /\ i = 2
    /\ Len(phases) = 6
    /\ Len(events) = 6
    /\ events[6] = Event("Classification", 3, 6, "completed")

\* Two configurations that differ at most in the unread flags.
SameButUnread(c1, c2) ==
    /\ c1.present = c2.present
    /\ c1.has = c2.has
    /\ \A f \in FlagNames \ UnreadFlags : c1.flags[f] = c2.flags[f]

\* C16: the phase list (and with it the invocations and the result of
\* execute(), which read the configuration nowhere else) does not depend on
\* skip_searches and skip_integration: every configuration that differs
\* from the executor's only in these flags is validated alike and yields the
\* phase list the executor resolved.
C16_UnreadFlags ==
    phases_bound =>
        \A c2 \in Configs :
            SameButUnread(config, c2) =>
                /\ _get_phases_to_run(c2) = phases
                /\ validate_config(c2, domain1_exists, domain2_exists)

C16_Witness ==
    /\ phases_bound
    /\ Flag("skip_searches")
    /\ Flag("skip_integration")
    /\ FullPipeline
    /\ Selected("SearchPhase")
    /\ Len(phases) = 6

\* C17: a call of execute() that passed validation and returned has written
\* the summary file once, and the document holds the duration of the run,
\* its success flag, its phase count and the configuration snapshot.
C17_PersistedSummary ==
    (/\ CallEnded
     /\ ~entered_completed
     /\ ~InvalidInputs
     /\ ret \in {"true", "false"}) =>
        /\ summary_writes = 1
        /\ summary_file.pipeline_stats.pipeline_duration = "elapsed"
        /\ {"success", "total_phases", "configuration"}
              \subseteq (DOMAIN summary_file \cup DOMAIN summary_file.pipeline_stats)

\* C18: no operation of the executor changes the configuration it was
\* constructed with.
C18_ConfigReadOnly == [][config' = config]_vars

C18_Witness ==
    /\ execution_completed
    /\ ret = "true"
    /\ access.op = "get_results"
    /\ access.outcome = "summary"
    /\ Flag("only_analysis")
    /\ Flag("skip_table")

\* The session's `authenticated` key is present and true.
Authenticated(s) == Get(s, "authenticated", "False") = "True"

\* The step is a run of main().
MainRan == rendered'.run # rendered.run

C20_ApiKeyGate ==
    api_result.service # "none" =>
        /\ (~Has(session, "user_id") =>
               api_result.result = "None" /\ ~api_result.queried)
        /\ ((Has(session, "user_id") /\ api_keys[api_result.service].exists)
               => /\ api_result.result = api_keys[api_result.service].key
                  /\ api_result.queried)

C20_Witness ==
    /\ Has(session, "user_id")
    /\ api_result.service = "anthropic"
    /\ api_result.result = "secret"
    /\ api_result.queried
    /\ api_keys["sciencedirect"].exists = FALSE

\* The entry is one of the bracketing calls of the log sink.
IsBracket(e) ==
    e.op \in {"start_pipeline", "start_phase", "end_phase", "end_pipeline"}

\* The bracketing entries of this call, in the order they were recorded.
Brackets == SelectSeq(log, IsBracket)

\* Number of entries of one operation recorded in this call.
EntryCount(op) == Cardinality({n \in 1..Len(log) : log[n].op = op})

\* C21: in a call of execute() that passed validation and returned, with a
\* log sink that records every call, the bracketing is well nested: the
\* pipeline start comes first, every phase start is directly followed by the
\* end of that phase, and the pipeline end is recorded once, last; also when
\* a phase's run() raised.
C21_WellNested ==
    (/\ CallEnded
     /\ ~entered_completed
     /\ ~InvalidInputs
     /\ ret \in {"true", "false"}
     /\ "sink" \notin raised) =>
        /\ Len(Brackets) >= 2
        /\ Brackets[1].op = "start_pipeline"
        /\ Brackets[Len(Brackets)].op = "end_pipeline"
        /\ EntryCount("start_pipeline") = 1
        /\ EntryCount("end_pipeline") = 1
        /\ \A n \in 1..Len(Brackets) :
              /\ (Brackets[n].op = "start_phase" =>
                     /\ n < Len(Brackets)
                     /\ Brackets[n + 1].op = "end_phase"
                     /\ Brackets[n + 1].phase = Brackets[n].phase)
              /\ (Brackets[n].op = "end_phase" =>
                     /\ n > 1
                     /\ Brackets[n - 1].op = "start_phase")

\* C22: the statistics handed to end_pipeline carry, as 'completed', the
\* number of phases whose run() returned true in the loop of this call and,
\* as 'total_phases', the length of the selected phase list.
C22_CompletedCount ==
    \A n \in 1..Len(log) :
        (log[n].op = "end_pipeline" /\ raised = {}) =>
            /\ log[n].total = Len(phases)
            /\ log[n].done = i

\* Every call of execute() comes back: with a boolean, unless a collaborator
\* raised.
C23_Returns ==
    (ret = "running") ~>
        (pc = "idle" /\ (ret \in {"true", "false"} \/ raised # {}))

\* Every call that passed validation sets the execution-completed marker,
\* unless a collaborator raised.
C23_Completes ==
    (pc = "start_pipeline") ~> (execution_completed \/ raised # {})

\* C23: with collaborators that come back without raising, every call of
\* execute() eventually returns a boolean, and every call that passed
\* validation eventually sets the execution-completed marker, having invoked
\* run() at most n times for its n selected phases.
C23_TerminatesWithinN ==
    /\ C23_Returns
    /\ C23_Completes
    /\ [](raised = {} => Len(runs) <= Len(phases))

\* C24: a call of get_results() or get_execution_summary() raises
\* RuntimeError when the execution-completed marker is not set (before any
\* execute() call and while execute() is running) and does not raise it when
\* the marker is set; the call changes neither the marker nor the
\* invocations of run().
C24_AccessorsGuarded ==
    [][(access' # access /\ access'.op # "none") =>
          /\ (~execution_completed => access'.outcome = "RuntimeError")
          /\ (execution_completed => access'.outcome # "RuntimeError")
          /\ execution_completed' = execution_completed
          /\ runs' = runs]_vars

C24_Witness ==
    /\ pc = "end_phase"
    /\ ~execution_completed
    /\ access.op = "get_execution_summary"
    /\ access.outcome = "RuntimeError"
    /\ Len(runs) = 1

\* C25: a call of execute() that fails validation leaves the marker unset,
\* records no pipeline start or end, delivers no progress event and writes
\* no summary; a later call on the same instance that passes validation is
\* not rejected: it runs the pipeline and sets the marker.
C25_FailedValidationLeavesNotStarted ==
    /\ (CallEnded /\ ~entered_completed /\ InvalidInputs) =>
          /\ ~execution_completed
          /\ EntryCount("start_pipeline") = 0
          /\ EntryCount("end_pipeline") = 0
          /\ events = <<>>
          /\ summary_writes = 0
    /\ (/\ CallEnded
        /\ calls = 2
        /\ prev = "false"
        /\ ~InvalidInputs
        /\ raised = {}) =>
          /\ ~entered_completed =>
                /\ execution_completed
                /\ EntryCount("start_pipeline") = 1
                /\ runs # <<>>
                /\ ret \in {"true", "false"}

C25_Witness ==
    /\ CallEnded
    /\ calls = 2
    /\ prev = "false"
    /\ ~entered_completed
    /\ execution_completed
    /\ ret = "true"
    /\ Len(phases) = 6

\* C26: within one call of execute() the fractions of the successive
\* progress events never decrease, and the fraction 1.0 is carried only by
\* the "completed" event of the last selected phase or by the event of the
\* exception handler.
C26_MonotoneProgress ==
    /\ \A n \in 1..Len(events) : \A k \in 1..Len(events) :
          n < k => events[n].num * events[k].den <= events[k].num * events[n].den
    /\ \A n \in 1..Len(events) :
          events[n].num = events[n].den =>
              \/ events[n].kind = "exception"
              \/ /\ events[n].kind = "completed"
                 /\ phases_bound
                 /\ events[n].phase = get_description(phases[Len(phases)])

C26_Witness ==
    /\ CallEnded
    /\ Len(events) = 4
    /\ events[2].kind = "completed"
    /\ events[3].kind = "starting"
    /\ events[3].num = 1
    /\ events[3].den = 2
    /\ events[4].kind = "exception"

\* The session keys that hold the tokens.
TokenKeys == {"id_token", "refresh_token", "token_expiry"}

\* The session keys sign_out() deletes.
AuthKeys == TokenKeys \cup {"user_id", "email", "display_name", "authenticated"}

\* The step is the clock passing the expiry of the token.
ClockPassed ==
    /\ Get(session, "token_expiry", "absent") = "future"
    /\ Get(session', "token_expiry", "absent") = "past"

\* C27: when sign_in_with_email_password returns a user id the session holds
\* authenticated = True with that user_id, an id_token, a refresh_token and
\* a token_expiry, whether the user document existed or was created by this
\* login; when it returns None the session is as it was.
C27_SignInSetsSession ==
    [][(MainRan /\ auth_call'.op = "sign_in") =>
          IF auth_call'.user_id # "None"
          THEN /\ Authenticated(session')
               /\ Get(session', "user_id", "absent") = auth_call'.user_id
               /\ TokenKeys \subseteq DOMAIN session'
          ELSE /\ ~Authenticated(session')
               /\ \A k \in AuthKeys \ {"authenticated"} :
                     Get(session', k, "absent") = Get(session, k, "absent")]_vars

\* The step is a call of ensure_auth_valid() outside main().
EnsureStep == auth_check'.called /\ ~ClockPassed

C29_AdminGate ==
    [][(/\ MainRan
        /\ rendered'.pages \cap {"api_settings", "admin"} # {}
        /\ (~firebase_ok \/ users[session'["user_id"]] # "admin")) =>
          /\ rendered'.writes = {}
          /\ "api_keys" \notin rendered'.reads
          /\ users' = users
          /\ api_keys' = api_keys]_vars

C29_Witness ==
    /\ rendered.pages = {"admin"}
    /\ rendered.reads = {"users"}
    /\ rendered.writes = {}
    /\ Authenticated(session)
    /\ users[session["user_id"]] = "user"
    /\ \E u \in UserIds : users[u] = "admin"

\* The user documents with role 'admin'.
Admins == {u \in UserIds : users[u] = "admin"}

\* C30: starting from an empty users collection, once every sign-up (and
\* first login) that wrote its user document has ended its first-user check,
\* exactly one user document has the role 'admin', and it is the document
\* written first.
C30_FirstUserIsAdmin ==
    (/\ signups.first # "None"
     /\ \A u \in UserIds : signups.pc[u] \in {"idle", "done"}) =>
        Admins = {signups.first}

====
